---- MODULE Spec2Model ----
(***************************************************************************)
(* A model of sentry.eventstream.kafka.backend.KafkaEventStream:           *)
(*   - relay():   the loop that polls the synchronized consumer, tracks    *)
(*                offsets, dispatches post-processing and commits;         *)
(*   - publish(): the producer side, with its lazily constructed client    *)
(*                and the delivery callback.                               *)
(* relay() is modelled statement by statement (variable pc), because a    *)
(* KeyboardInterrupt can be raised between any two statements of the try   *)
(* block.  publish() is modelled per calling thread (variable tpc).        *)
(***************************************************************************)
EXTENDS Integers, Sequences, FiniteSets, TLC

\* ------------------------------------------------------------------ bounds
\* number of consumer.poll() calls of one relay run
MaxPolls == 4
\* largest commit_batch_size a relay run is started with
MaxBatchSize == 3
\* number of publish() calls made on one KafkaEventStream instance
MaxPublish == 2

\* ------------------------------------------------------ program constants
EVENT_PROTOCOL_VERSION == 1

\* KafkaEventStream.__init__: publish_topic='events'
publish_topic == "events"

\* ------------------------------------------------------------ environment
\* the partitions of the publish topic the consumer is assigned
Partitions == {0, 1}

TopicPartitions == {<<publish_topic, p>> : p \in Partitions}

\* the values a message of the topic may carry: a version 1 insert and an
\* envelope the parser does not recognise
Values ==
  { [version |-> EVENT_PROTOCOL_VERSION, action |-> "insert"],
    [version |-> EVENT_PROTOCOL_VERSION + 1, action |-> "insert"] }

NoValue == [version |-> 0, action |-> "-"]

\* what consumer.poll() returns: None, a message, or a message whose
\* error() is not None
NoMessage ==
  [kind |-> "none", topic |-> "-", partition |-> 0, offset |-> 0,
   value |-> NoValue]

ValidMessage(tp, off, val) ==
  [kind |-> "message", topic |-> tp[1], partition |-> tp[2], offset |-> off,
   value |-> val]

ErrorMessage(tp) ==
  [kind |-> "error", topic |-> tp[1], partition |-> tp[2], offset |-> 0,
   value |-> NoValue]

\* parse_event_message: the payload to dispatch, or None (empty) when the
\* envelope is filtered or not recognised
parse_event_message(value) ==
  IF value.version = EVENT_PROTOCOL_VERSION /\ value.action = "insert"
    THEN [empty |-> FALSE, value |-> value]
    ELSE [empty |-> TRUE, value |-> NoValue]

NoPayload == [empty |-> TRUE, value |-> NoValue]

\* ------------------------------------------------------------ dictionaries
EmptyDict == [tp \in {} |-> 0]

\* a tracker keyed by the topic alone: every partition shares one entry
DictSetIgnoringPartition(d, k, v) ==
  [x \in (DOMAIN d) \cup {<<k[1], 0>>} |-> IF x = <<k[1], 0>> THEN v ELSE d[x]]

DictSet(d, k, v) ==
  [x \in (DOMAIN d) \cup {k} |-> IF x = k THEN v ELSE d[x]]

\* ------------------------------------------------------------------ state
VARIABLES
  pc,                \* relay: the statement about to run
  commit_batch_size, \* relay: the argument of the run
  i,                 \* relay: the local i
  offsets,           \* relay: the local dict offsets
  message,           \* relay: the local message
  payload,           \* relay: the local payload
  position,          \* consumer: next offset to deliver, per partition
  polls,             \* history: number of consumer.poll() calls
  readMsgs,          \* history: the valid messages poll has returned
  dispatched,        \* history: number of messages that passed line 120
  calls              \* history: dispatch, commit, close and the interrupt

VARIABLES
  cache,             \* instance: __dict__['producer'], 0 while absent
  constructed,       \* number of Producer objects constructed so far
  tpc,               \* per thread: the statement of publish() about to run
  tprod,             \* per thread: the producer line 56 obtained
  tcall,             \* per thread: the publish() call it is running
  inflight,          \* producers: messages enqueued and not yet reported
  reports,           \* producers: delivery reports waiting for a poll
  log,               \* logger: the warnings logged
  results,           \* history: one record per publish() call
  enqueues,          \* history: every message a producer accepted
  handled,           \* history: every report given to delivery_callback
  callers,           \* the threads that call publish() on the instance
  inputs,            \* the arguments the callers pass to publish()
  produced           \* history: the arguments of every accepted produce()

relayVars ==
  <<pc, commit_batch_size, i, offsets, message, payload, position, polls,
    readMsgs, dispatched, calls>>

publishVars ==
  <<cache, constructed, tpc, tprod, tcall, inflight, reports, log, results,
    enqueues, handled, callers, inputs, produced>>

vars == <<relayVars, publishVars>>

\* an entry of the history calls
Event(op, msg, offs) ==
  [op |-> op, msg |-> msg, offsets |-> offs, topic_partitions |-> {},
   asynchronous |-> FALSE]

\* the statements of the try block (lines 105-124)
TryPcs == {"poll", "check", "count", "track", "parse", "dispatch", "batch"}

\* ------------------------------------------------- publish: environment
\* the execution contexts that call publish() on the instance
Threads == {"t1", "t2"}

NoError == "None"

\* what producer.produce() may raise (BufferError when the local queue is
\* full, KafkaException otherwise)
ProduceErrors == {"BufferError", "KafkaException"}

\* the error a delivery report carries when the message was not delivered
DeliveryErrors == {"KafkaError"}

\* KafkaEventStream.__init__ (lines 26-31): no producer exists yet
PublishStart ==
  /\ cache = 0
  /\ constructed = 0
  /\ tpc = [t \in Threads |-> "idle"]
  /\ tprod = [t \in Threads |-> 0]
  /\ tcall = [t \in Threads |-> 0]
  /\ inflight = {}
  /\ reports = <<>>
  /\ log = <<>>
  /\ results = <<>>
  /\ enqueues = <<>>
  /\ handled = <<>>
  /\ produced = <<>>

\* ------------------------------------------------------------------ relay
\* lines 87-106: relay() called with commit_batch_size = k, the consumer
\* constructed and subscribed, about to enter the loop
RelayStart(k) ==
  /\ pc = "poll"
  /\ commit_batch_size = k
  /\ i = 0
  /\ offsets = EmptyDict
  /\ message = NoMessage
  /\ payload = NoPayload
  /\ position = [tp \in TopicPartitions |-> 0]
  /\ polls = 0
  /\ readMsgs = <<>>
  /\ dispatched = 0
  /\ calls = <<>>

RelayInit ==
  /\ \E k \in 1..MaxBatchSize : RelayStart(k)
  /\ PublishStart
  /\ callers = {}
  /\ inputs = {}

\* SynchronizedConsumer.poll: nothing within the timeout, the next message
\* of an assigned partition, or a message carrying a broker error
PollResults ==
  {NoMessage}
    \cup {ValidMessage(tp, position[tp], val) : tp \in TopicPartitions, val \in Values}
    \cup {ErrorMessage(tp) : tp \in TopicPartitions}

\* line 108: message = consumer.poll(0.1)
Poll ==
  /\ pc = "poll"
  /\ polls < MaxPolls
  /\ \E m \in PollResults :
       /\ message' = m
       /\ IF m.kind = "message"
            THEN /\ position' = [position EXCEPT ![<<m.topic, m.partition>>] = m.offset + 1]
                 /\ readMsgs' = Append(readMsgs, m)
            ELSE UNCHANGED <<position, readMsgs>>
  /\ polls' = polls + 1
  /\ pc' = "check"
  /\ UNCHANGED <<commit_batch_size, i, offsets, payload, dispatched, calls,
                 publishVars>>

\* an empty poll result that is processed like a message
AfterCheckCountingNone(m) ==
  CASE m.kind = "none" -> "count"
    [] m.kind = "error" -> "raised"
    [] OTHER -> "count"

\* a broker error that is polled again instead of raised
AfterCheckIgnoringError(m) ==
  CASE m.kind = "none" -> "poll"
    [] m.kind = "error" -> "poll"
    [] OTHER -> "count"

\* lines 109-114: None continues the loop, a broker error is raised as an
\* Exception, which line 125 does not catch: relay() ends there
AfterCheck(m) ==
  CASE m.kind = "none" -> "poll"
    [] m.kind = "error" -> "raised"
    [] OTHER -> "count"

\* lines 109-114
CheckMessage ==
  /\ pc = "check"
  /\ pc' = AfterCheck(message)
  /\ UNCHANGED <<commit_batch_size, i, offsets, message, payload, position,
                 polls, readMsgs, dispatched, calls, publishVars>>

\* line 116: i = i + 1
Count ==
  /\ pc = "count"
  /\ i' = i + 1
  /\ pc' = "track"
  /\ UNCHANGED <<commit_batch_size, offsets, message, payload, position,
                 polls, readMsgs, dispatched, calls, publishVars>>

\* the message's own offset stored instead of the one to resume from
NextOffsetSame(m) == m.offset

\* line 117: the value stored for the message's partition
NextOffset(m) == m.offset + 1

\* line 117: offsets[(message.topic(), message.partition())] = ...
Track ==
  /\ pc = "track"
  /\ offsets' = DictSet(offsets, <<message.topic, message.partition>>, NextOffset(message))
  /\ pc' = "parse"
  /\ UNCHANGED <<commit_batch_size, i, message, payload, position, polls,
                 readMsgs, dispatched, calls, publishVars>>

\* line 119: payload = parse_event_message(message.value())
Parse ==
  /\ pc = "parse"
  /\ payload' = parse_event_message(message.value)
  /\ pc' = "dispatch"
  /\ UNCHANGED <<commit_batch_size, i, offsets, message, position, polls,
                 readMsgs, dispatched, calls, publishVars>>

\* a dispatch that does not look at the payload
ShouldDispatchAlways(p) == TRUE

\* line 120: if payload is not None
ShouldDispatch(p) == ~p.empty

\* lines 120-121: post_process_group.delay(**payload)
Dispatch ==
  /\ pc = "dispatch"
  /\ calls' = IF ShouldDispatch(payload)
                THEN Append(calls, Event("dispatch", message, EmptyDict))
                ELSE calls
  /\ dispatched' = dispatched + 1
  /\ pc' = "batch"
  /\ UNCHANGED <<commit_batch_size, i, offsets, message, payload, position,
                 polls, readMsgs, publishVars>>

\* lines 101-103: [TopicPartition(topic, partition, offset) for ... in
\* offsets.items()]; the order of a dict's items is not determined
TopicPartitionList(offs) ==
  {<<k[1], k[2], offs[k]>> : k \in DOMAIN offs}

\* a commit that does not wait for the broker
commit_offsets_asynchronous(cs, offs) ==
  Append(cs, [op |-> "commit", msg |-> NoMessage, offsets |-> offs,
              topic_partitions |-> TopicPartitionList(offs),
              asynchronous |-> TRUE])

\* lines 100-103: consumer.commit(offsets=[...], asynchronous=False); the
\* field offsets keeps the tracker as it was when the call was made
commit_offsets(cs, offs) ==
  Append(cs, [op |-> "commit", msg |-> NoMessage, offsets |-> offs,
              topic_partitions |-> TopicPartitionList(offs),
              asynchronous |-> FALSE])

\* a batch test that is only true for the first batch
ShouldCommitFirstBatchOnly(n, k) == n = k

\* a batch test that is off by one
ShouldCommitOffByOne(n, k) == n % k = 1

\* line 123: if i % commit_batch_size == 0
ShouldCommit(n, k) == n % k = 0

\* a batch commit that empties the tracker once it has committed
BatchCommitClearing ==
  /\ pc = "batch"
  /\ IF ShouldCommit(i, commit_batch_size)
       THEN /\ calls' = commit_offsets(calls, offsets)
            /\ offsets' = EmptyDict
       ELSE UNCHANGED <<calls, offsets>>
  /\ pc' = "poll"
  /\ UNCHANGED <<commit_batch_size, i, message, payload, position,
                 polls, readMsgs, dispatched, publishVars>>

\* lines 123-124
BatchCommit ==
  /\ pc = "batch"
  /\ calls' = IF ShouldCommit(i, commit_batch_size)
                THEN commit_offsets(calls, offsets)
                ELSE calls
  /\ pc' = "poll"
  /\ UNCHANGED <<commit_batch_size, i, offsets, message, payload, position,
                 polls, readMsgs, dispatched, publishVars>>

\* an interrupt that is not caught and ends relay() like any other error
InterruptUncaught ==
  /\ pc \in TryPcs
  /\ calls' = Append(calls, Event("interrupt", NoMessage, EmptyDict))
  /\ pc' = "raised"
  /\ UNCHANGED <<commit_batch_size, i, offsets, message, payload, position,
                 polls, readMsgs, dispatched, publishVars>>

\* lines 125-126: a KeyboardInterrupt raised anywhere in the try block
Interrupt ==
  /\ pc \in TryPcs
  /\ calls' = Append(calls, Event("interrupt", NoMessage, EmptyDict))
  /\ pc' = "final"
  /\ UNCHANGED <<commit_batch_size, i, offsets, message, payload, position,
                 polls, readMsgs, dispatched, publishVars>>

\* a shutdown that never commits
NeedsFinalCommitNever(offs) == FALSE

\* a final commit that does not look at the tracker
NeedsFinalCommitAlways(offs) == TRUE

\* line 130: if offsets
NeedsFinalCommit(offs) == DOMAIN offs # {}

\* lines 128-131
FinalCommit ==
  /\ pc = "final"
  /\ calls' = IF NeedsFinalCommit(offsets)
                THEN commit_offsets(calls, offsets)
                ELSE calls
  /\ pc' = "close"
  /\ UNCHANGED <<commit_batch_size, i, offsets, message, payload, position,
                 polls, readMsgs, dispatched, publishVars>>

\* line 133: consumer.close()
Close ==
  /\ pc = "close"
  /\ calls' = Append(calls, Event("close", NoMessage, EmptyDict))
  /\ pc' = "done"
  /\ UNCHANGED <<commit_batch_size, i, offsets, message, payload, position,
                 polls, readMsgs, dispatched, publishVars>>

RelayNext ==
  \/ Poll
  \/ CheckMessage
  \/ Count
  \/ Track
  \/ Parse
  \/ Dispatch
  \/ BatchCommit
  \/ Interrupt
  \/ FinalCommit
  \/ Close

RelaySpec == RelayInit /\ [][RelayNext]_vars

\* relay() is sequential code: once the interrupt is caught, lines 128-133
\* run to the end
RelayFairSpec == RelaySpec /\ WF_vars(FinalCommit) /\ WF_vars(Close)

\* ---------------------------------------------------------------- publish
\* an event as publish() reads it (lines 43, 59-68); strings that are
\* formatted or encoded are sequences of characters
EventOf(project, org, group, id) ==
  [project_id |-> project, organization_id |-> org, group_id |-> group,
   event_id |-> id, message |-> "oops", platform |-> "python",
   datetime |-> 0, data |-> [level |-> "error"]]

\* the arguments of one publish() call (lines 41-42)
Arguments(event, new, sample, regression, new_env, hash) ==
  [event |-> event, is_new |-> new, is_sample |-> sample,
   is_regression |-> regression, is_new_group_environment |-> new_env,
   primary_hash |-> hash]

ScenarioA ==
  Arguments(EventOf(42, 1, 5, <<"a", "b", "c">>), TRUE, FALSE, FALSE, TRUE, "h1")

\* the arguments drawn for publish() calls
PublishInputs ==
  { ScenarioA,
    Arguments(EventOf(7, 2, 6, <<"c", "0">>), FALSE, TRUE, TRUE, FALSE, "h2"),
    Arguments(EventOf(105, 2, 7, <<"b", "1">>), TRUE, TRUE, FALSE, FALSE, "h1") }

\* quotas.get_event_retention(organization=...): the retention of each
\* organization
get_event_retention(org) == IF org = 1 THEN 30 ELSE 90

\* str() of a non-negative integer, as '%s' formats it
DigitChars == <<"0", "1", "2", "3", "4", "5", "6", "7", "8", "9">>

RECURSIVE StrOfInt(_)
StrOfInt(n) ==
  IF n < 10 THEN <<DigitChars[n + 1]>>
  ELSE StrOfInt(n \div 10) \o <<DigitChars[(n % 10) + 1]>>

\* .encode('utf-8') of the characters that occur in keys
Utf8Table ==
  [c \in {"0", "1", "2", "3", "4", "5", "6", "7", "8", "9", ":", "a", "b", "c"} |->
     CASE c = "0" -> 48 [] c = "1" -> 49 [] c = "2" -> 50 [] c = "3" -> 51
       [] c = "4" -> 52 [] c = "5" -> 53 [] c = "6" -> 54 [] c = "7" -> 55
       [] c = "8" -> 56 [] c = "9" -> 57 [] c = ":" -> 58
       [] c = "a" -> 97 [] c = "b" -> 98 [] c = "c" -> 99]

EncodeUtf8(str) == [j \in 1..Len(str) |-> Utf8Table[str[j]]]

\* a key formatted as event_id:project_id
MessageKeySwapped(event) ==
  EncodeUtf8(event.event_id \o <<":">> \o StrOfInt(event.project_id))

\* lines 59 and 79: ('%s:%s' % (event.project_id, event.event_id)).encode('utf-8')
MessageKey(event) ==
  EncodeUtf8(StrOfInt(event.project_id) \o <<":">> \o event.event_id)

\* lines 60-76: the envelope
MessageValue(a, retention_days) ==
  << EVENT_PROTOCOL_VERSION,
     "insert",
     [group_id |-> a.event.group_id,
      event_id |-> a.event.event_id,
      organization_id |-> a.event.organization_id,
      project_id |-> a.event.project_id,
      message |-> a.event.message,
      platform |-> a.event.platform,
      datetime |-> a.event.datetime,
      data |-> a.event.data,
      primary_hash |-> a.primary_hash,
      retention_days |-> retention_days],
     [is_new |-> a.is_new,
      is_sample |-> a.is_sample,
      is_regression |-> a.is_regression,
      is_new_group_environment |-> a.is_new_group_environment] >>

\* line 80, json.dumps(value): the tuple serialised as a JSON array
json_dumps(value) == [json |-> "array", items |-> value]

\* one record of the history results
CallRecord(t, a) ==
  [thread |-> t, args |-> a,
   retention_days |-> get_event_retention(a.event.organization_id),
   polled |-> 0, drains |-> 0, drained_after |-> 0, produced |-> 0,
   attempts |-> 0,
   raised |-> NoError, outcome |-> "running"]

\* lines 41-46: a thread enters publish() and looks up the retention
StartPublish(t) ==
  /\ tpc[t] = "idle"
  /\ t \in callers
  /\ Len(results) < MaxPublish
  /\ \E a \in inputs : results' = Append(results, CallRecord(t, a))
  /\ tcall' = [tcall EXCEPT ![t] = Len(results) + 1]
  /\ tpc' = [tpc EXCEPT ![t] = "get"]
  /\ UNCHANGED <<cache, constructed, tprod, inflight, reports, log, enqueues,
                 handled, callers, inputs, produced, relayVars>>

\* a publish() that does not poll a producer it finds in the cache
GetProducerSkippingDrain(t) ==
  /\ tpc[t] = "get"
  /\ IF cache # 0
       THEN /\ tprod' = [tprod EXCEPT ![t] = cache]
            /\ tpc' = [tpc EXCEPT ![t] = "produce"]
       ELSE /\ tpc' = [tpc EXCEPT ![t] = "construct"]
            /\ UNCHANGED tprod
  /\ UNCHANGED <<cache, constructed, tcall, inflight, reports, log, results,
                 enqueues, handled, callers, inputs, produced, relayVars>>

\* line 56, self.producer: cached_property returns the value stored in the
\* instance __dict__, or runs producer() when there is none
GetProducer(t) ==
  /\ tpc[t] = "get"
  /\ IF cache # 0
       THEN /\ tprod' = [tprod EXCEPT ![t] = cache]
            /\ tpc' = [tpc EXCEPT ![t] = "poll"]
       ELSE /\ tpc' = [tpc EXCEPT ![t] = "construct"]
            /\ UNCHANGED tprod
  /\ UNCHANGED <<cache, constructed, tcall, inflight, reports, log, results,
                 enqueues, handled, callers, inputs, produced, relayVars>>

\* lines 33-35: Producer(self.producer_configuration), which cached_property
\* stores in the instance __dict__ and returns
ConstructProducer(t) ==
  /\ tpc[t] = "construct"
  /\ constructed' = constructed + 1
  /\ cache' = constructed + 1
  /\ tprod' = [tprod EXCEPT ![t] = constructed + 1]
  /\ tpc' = [tpc EXCEPT ![t] = "poll"]
  /\ UNCHANGED <<tcall, inflight, reports, log, results, enqueues, handled,
                 callers, inputs, produced, relayVars>>

\* a callback that raises the delivery error
delivery_callback_raising(error, msg) ==
  [warn |-> error # NoError, raises |-> error, produce |-> FALSE]

\* lines 37-39: a warning is logged when error is not None; the callback
\* neither raises nor produces
delivery_callback(error, msg) ==
  [warn |-> error # NoError, raises |-> NoError, produce |-> FALSE]

\* the delivery reports of producer p, in order
ReportsOf(p) == SelectSeq(reports, LAMBDA r : r.producer = p)

\* the log records the callbacks of a sequence of reports write
RECURSIVE DeliveryWarnings(_)
DeliveryWarnings(rs) ==
  IF rs = <<>> THEN <<>>
  ELSE LET r == Head(rs)
       IN (IF delivery_callback(r.error, r.msg).warn
             THEN <<[kind |-> "delivery", msg |-> r.msg, error |-> r.error]>>
             ELSE <<>>) \o DeliveryWarnings(Tail(rs))

\* the messages the callbacks of a sequence of reports produce again
RECURSIVE DeliveryProduces(_)
DeliveryProduces(rs) ==
  IF rs = <<>> THEN <<>>
  ELSE LET r == Head(rs)
       IN (IF delivery_callback(r.error, r.msg).produce
             THEN <<[producer |-> r.producer, msg |-> r.msg]>>
             ELSE <<>>) \o DeliveryProduces(Tail(rs))

\* the first error a callback of a sequence of reports raises, if any
RECURSIVE DeliveryRaise(_)
DeliveryRaise(rs) ==
  IF rs = <<>> THEN NoError
  ELSE LET r == Head(rs)
       IN IF delivery_callback(r.error, r.msg).raises # NoError
            THEN delivery_callback(r.error, r.msg).raises
            ELSE DeliveryRaise(Tail(rs))

\* line 56, .poll(0.0): the callbacks of the waiting delivery reports of the
\* producer run inside the call; an error a callback raises leaves publish()
PollProducer(t) ==
  /\ tpc[t] = "poll"
  /\ LET p == tprod[t]
         rs == ReportsOf(p)
         e == DeliveryRaise(rs)
         again == DeliveryProduces(rs)
     IN /\ reports' = SelectSeq(reports, LAMBDA r : r.producer # p)
        /\ handled' = handled \o
             [j \in 1..Len(rs) |->
                [producer |-> rs[j].producer, msg |-> rs[j].msg,
                 error |-> rs[j].error, by |-> tcall[t],
                 after |-> Len(enqueues)]]
        /\ log' = log \o DeliveryWarnings(rs)
        /\ enqueues' = enqueues \o again
        /\ inflight' = inflight \cup {again[j] : j \in 1..Len(again)}
        /\ results' = [results EXCEPT ![tcall[t]].polled = p,
                                      ![tcall[t]].drains = @ + 1,
                                      ![tcall[t]].drained_after = Len(enqueues),
                                      ![tcall[t]].outcome =
                                         IF e = NoError THEN @ ELSE e]
        /\ tpc' = [tpc EXCEPT ![t] = IF e = NoError THEN "produce" ELSE "idle"]
  /\ UNCHANGED <<cache, constructed, tprod, tcall, callers, inputs, produced,
                 relayVars>>

\* an except clause that logs and does not raise again
ExceptHandlerSwallowing(error) == [warnings |-> 1, raises |-> NoError]

\* lines 83-85: logger.warning(...), then raise
ExceptHandler(error) == [warnings |-> 1, raises |-> error]

\* lines 58-85: self.producer is read again at line 77 and produce() either
\* accepts the message or raises
Produce(t) ==
  /\ tpc[t] = "produce"
  /\ LET p == cache
         c == tcall[t]
     IN \E e \in {NoError} \cup ProduceErrors :
          IF e = NoError
            THEN /\ inflight' = inflight \cup {[producer |-> p, msg |-> c]}
                 /\ enqueues' = Append(enqueues, [producer |-> p, msg |-> c])
                 /\ produced' =
                      Append(produced,
                             [msg |-> c,
                              topic |-> publish_topic,
                              key |-> MessageKey(results[c].args.event),
                              value |-> json_dumps(
                                MessageValue(results[c].args,
                                             results[c].retention_days))])
                 /\ results' = [results EXCEPT ![c].produced = p,
                                               ![c].attempts = @ + 1,
                                               ![c].outcome = "ok"]
                 /\ UNCHANGED log
            ELSE /\ log' = log \o [j \in 1..ExceptHandler(e).warnings |->
                                     [kind |-> "publish", msg |-> c, error |-> e]]
                 /\ results' = [results EXCEPT ![c].produced = p,
                                               ![c].attempts = @ + 1,
                                               ![c].raised = e,
                                               ![c].outcome =
                                                  IF ExceptHandler(e).raises = NoError
                                                    THEN "ok"
                                                    ELSE ExceptHandler(e).raises]
                 /\ UNCHANGED <<inflight, enqueues, produced>>
  /\ tpc' = [tpc EXCEPT ![t] = "idle"]
  /\ UNCHANGED <<cache, constructed, tprod, tcall, reports, handled, callers,
                 inputs, relayVars>>

\* the producer's own delivery mechanism: a message enqueued is reported as
\* delivered or as failed
Deliver ==
  /\ \E x \in inflight, e \in {NoError} \cup DeliveryErrors :
       /\ inflight' = inflight \ {x}
       /\ reports' = Append(reports, [producer |-> x.producer, msg |-> x.msg,
                                      error |-> e])
  /\ UNCHANGED <<cache, constructed, tpc, tprod, tcall, log, results,
                 enqueues, handled, callers, inputs, produced, relayVars>>

PublishNext ==
  \/ \E t \in Threads : StartPublish(t)
  \/ \E t \in Threads : GetProducer(t)
  \/ \E t \in Threads : ConstructProducer(t)
  \/ \E t \in Threads : PollProducer(t)
  \/ \E t \in Threads : Produce(t)
  \/ Deliver

\* who calls publish() and with what: two threads that publish the same
\* event concurrently, or one thread that publishes any of the events
Configurations ==
  { [callers |-> Threads, inputs |-> {ScenarioA}],
    [callers |-> {"t1"}, inputs |-> PublishInputs] }

\* an instance on which no relay() runs
PublishInit ==
  /\ PublishStart
  /\ RelayStart(1)
  /\ \E cfg \in Configurations :
       /\ callers = cfg.callers
       /\ inputs = cfg.inputs

PublishSpec == PublishInit /\ [][PublishNext]_vars

\* ------------------------------------------------- properties of relay()
\* the indices of calls that carry the given operation
Indices(op) == {j \in 1..Len(calls) : calls[j].op = op}

Interrupted == Indices("interrupt") # {}

\* the commits issued by line 124, i.e. before the interrupt
BatchCommitIndices ==
  {j \in Indices("commit") : \A x \in Indices("interrupt") : j < x}

\* the commits issued by line 131, i.e. after the interrupt
FinalCommitIndices ==
  {j \in Indices("commit") : \E x \in Indices("interrupt") : j > x}

\* the j-th batch commit of the run
NthBatchCommit(n) ==
  CHOOSE j \in BatchCommitIndices :
    Cardinality({x \in BatchCommitIndices : x <= j}) = n

\* the operations called after the interrupt, in order
OpsAfterInterrupt ==
  LET x == CHOOSE j \in Indices("interrupt") : TRUE
  IN  [j \in 1..(Len(calls) - x) |-> calls[x + j].op]

KeyOf(m) == <<m.topic, m.partition>>

\* how often a message was handed to post-processing
DispatchCount(m) ==
  Cardinality({j \in Indices("dispatch") : calls[j].msg = m})

\* the tracker contents after the first n messages read have been tracked
RECURSIVE TrackerAfter(_)
TrackerAfter(n) ==
  IF n = 0 THEN EmptyDict
  ELSE DictSet(TrackerAfter(n - 1), KeyOf(readMsgs[n]), readMsgs[n].offset + 1)

\* C1: at-least-once delivery.  Whenever a commit carries offset o+1 for a
\* (topic, partition), every message of that partition with offset <= o that
\* this run has read and that decodes to a non-empty payload was dispatched
\* before that commit was issued.
C1_AtLeastOnce ==
  \A j \in Indices("commit") :
    \A tp \in DOMAIN calls[j].offsets :
      \A r \in 1..Len(readMsgs) :
        ( /\ KeyOf(readMsgs[r]) = tp
          /\ readMsgs[r].offset + 1 <= calls[j].offsets[tp]
          /\ ~parse_event_message(readMsgs[r].value).empty )
        => \E d \in Indices("dispatch") : d < j /\ calls[d].msg = readMsgs[r]

\* C2: offset monotonicity.  The step that tracks the message at offset o of
\* a partition leaves o+1 in the tracker for that partition, and no step ever
\* removes an entry of the tracker or makes it smaller.
C2_OffsetMonotonic ==
  [][ /\ \A tp \in DOMAIN offsets :
           tp \in DOMAIN offsets' /\ offsets'[tp] >= offsets[tp]
      /\ (pc = "track" /\ pc' = "parse")
           => /\ KeyOf(message) \in DOMAIN offsets'
              /\ offsets'[KeyOf(message)] = message.offset + 1 ]_vars

C2_Witness ==
  /\ pc = "parse"
  /\ offsets[KeyOf(message)] >= 2
  /\ Cardinality(DOMAIN offsets) = 2

\* C3: batch boundary.  At the head of the loop, after n messages have been
\* consumed, exactly n div commit_batch_size batch commits have been issued
\* (never more at any point), and the j-th batch commit carries the tracker
\* as it stands after the (j * commit_batch_size)-th message, messages that
\* were not dispatched and all partitions included.
C3_BatchBoundary ==
  /\ pc = "poll" => Cardinality(BatchCommitIndices) = i \div commit_batch_size
  /\ Cardinality(BatchCommitIndices) <= i \div commit_batch_size
  /\ \A n \in 1..Cardinality(BatchCommitIndices) :
       calls[NthBatchCommit(n)].offsets = TrackerAfter(n * commit_batch_size)

C3_Witness ==
  /\ pc = "poll"
  /\ commit_batch_size = 2
  /\ i = 4
  /\ Cardinality(BatchCommitIndices) = 2
  /\ Cardinality(Indices("dispatch")) < 4

\* C4: graceful shutdown drain.  Once the interrupt has stopped the loop and
\* relay() has run to its end, what was called after the interrupt is exactly
\* one commit followed by close when the tracker holds an entry, and close
\* alone when the tracker is empty.
C4_ShutdownDrain ==
  /\ (pc = "close" /\ Interrupted)
       => OpsAfterInterrupt = IF DOMAIN offsets # {} THEN <<"commit">> ELSE <<>>
  /\ (pc = "done" /\ Interrupted)
       => OpsAfterInterrupt =
            IF DOMAIN offsets # {} THEN <<"commit", "close">> ELSE <<"close">>

C4_Witness ==
  /\ pc = "done"
  /\ Interrupted
  /\ DOMAIN offsets # {}
  /\ OpsAfterInterrupt = <<"commit", "close">>

\* C5: skip semantics.  Every message whose iteration has passed the dispatch
\* statement was dispatched exactly once when its payload is non-empty and
\* not at all when it is empty; no message is ever dispatched twice and no
\* empty one ever; the message counts as consumed, its partition's tracker
\* entry is its offset + 1, and it counts toward the batch commits like any
\* other message.
C5_SkipSemantics ==
  /\ \A r \in 1..Len(readMsgs) :
       /\ DispatchCount(readMsgs[r]) <= 1
       /\ parse_event_message(readMsgs[r].value).empty
            => DispatchCount(readMsgs[r]) = 0
       /\ r <= dispatched
            => DispatchCount(readMsgs[r]) =
                 IF parse_event_message(readMsgs[r].value).empty THEN 0 ELSE 1
  /\ dispatched <= i
  /\ i <= dispatched + 1
  /\ (dispatched >= 1 /\ i = dispatched)
       => offsets[KeyOf(readMsgs[dispatched])] = readMsgs[dispatched].offset + 1
  /\ pc = "poll"
       => Cardinality(BatchCommitIndices) = dispatched \div commit_batch_size

C5_Witness ==
  /\ pc = "poll"
  /\ dispatched >= 2
  /\ parse_event_message(readMsgs[dispatched].value).empty
  /\ dispatched % commit_batch_size = 0
  /\ calls[Len(calls)].op = "commit"
  /\ calls[Len(calls)].offsets[KeyOf(readMsgs[dispatched])]
       = readMsgs[dispatched].offset + 1

\* C6: fatal broker error.  When the message polled carries a broker error,
\* checking it ends relay() in the raised state without counting, tracking or
\* dispatching the message; nothing at all happens after that: no poll, no
\* commit of the pending offsets, no close.
C6_FatalBrokerError ==
  /\ [](pc = "raised"
          => /\ message.kind = "error"
             /\ Indices("close") = {}
             /\ FinalCommitIndices = {}
             /\ i = Len(readMsgs)
             /\ dispatched = i)
  /\ [][ /\ pc # "raised"
         /\ (pc = "check" /\ message.kind = "error" /\ pc' # "final")
              => /\ pc' = "raised"
                 /\ UNCHANGED <<i, offsets, polls, dispatched, calls>> ]_vars

C6_Witness ==
  /\ pc = "raised"
  /\ DOMAIN offsets # {}
  /\ \A j \in Indices("commit") : calls[j].offsets # offsets

\* C7: after the interrupt has stopped the loop, relay() reaches its end with
\* the consumer closed exactly once, and nothing is polled, dispatched or
\* committed after the close.
C7_GracefulTermination ==
  /\ Interrupted ~> (pc = "done" /\ Cardinality(Indices("close")) = 1)
  /\ [](Cardinality(Indices("close")) <= 1)
  /\ [][Indices("close") # {} => (calls' = calls /\ polls' = polls)]_vars

C7_Witness ==
  /\ pc = "done"
  /\ Interrupted
  /\ Cardinality(Indices("close")) = 1
  /\ calls[Len(calls)].op = "close"

\* C12: every commit call, batch or final, is synchronous and carries the
\* whole tracker as it stands: one TopicPartition per (topic, partition)
\* tracked so far, with the tracker's current offset; the step that commits
\* leaves the tracker as it was.
C12_CommitCarriesTracker ==
  /\ [](\A j \in Indices("commit") :
          /\ ~calls[j].asynchronous
          /\ \A x, y \in calls[j].topic_partitions :
               (x[1] = y[1] /\ x[2] = y[2]) => x = y)
  /\ [][ (Len(calls') = Len(calls) + 1 /\ calls'[Len(calls')].op = "commit")
           => /\ calls'[Len(calls')].topic_partitions
                   = {<<tp[1], tp[2], offsets[tp]>> : tp \in DOMAIN offsets}
              /\ offsets' = offsets
              /\ {KeyOf(readMsgs[r]) : r \in 1..dispatched} \subseteq DOMAIN offsets
              /\ DOMAIN offsets \subseteq {KeyOf(readMsgs[r]) : r \in 1..i} ]_vars

C12_Witness ==
  /\ pc = "close"
  /\ Cardinality(Indices("commit")) >= 2
  /\ calls[Len(calls)].op = "commit"
  /\ Cardinality(calls[Len(calls)].topic_partitions) = 2
  /\ \A tp \in TopicPartitions :
       <<tp[1], tp[2], offsets[tp]>> \in calls[Len(calls)].topic_partitions

\* the run is past lines 128-131 and a final commit carried exactly the
\* tracker that the first n messages read leave behind
FinalCommitCovers(n) ==
  /\ Cardinality(FinalCommitIndices) = 1
  /\ \A j \in FinalCommitIndices : calls[j].offsets = TrackerAfter(n)

\* C13, as claimed: once the graceful shutdown has passed its commit, the
\* final commit covers every message consumed (counted by line 116): for each
\* partition a message was consumed from, it carries the offset of the last
\* such message plus one.
C13_FinalCoversConsumed ==
  (pc \in {"close", "done"} /\ Interrupted /\ i >= 1) => FinalCommitCovers(i)

\* C13, amended: the final commit covers every message the loop has tracked
\* (line 117 ran), those consumed after the last batch commit included: every
\* consumed message when no iteration was cut off, and otherwise all of them
\* or all but the last one, the one the interrupt cut off; when that one was
\* the only message and was not tracked, there is no final commit.
C13_FinalCoversTracked ==
  (pc \in {"close", "done"} /\ Interrupted /\ i >= 1)
    => IF i = dispatched
         THEN FinalCommitCovers(i)
         ELSE \/ FinalCommitCovers(i)
              \/ i > 1 /\ FinalCommitCovers(i - 1)
              \/ i = 1 /\ FinalCommitIndices = {} /\ DOMAIN offsets = {}

C13_Witness ==
  /\ pc = "done"
  /\ Interrupted
  /\ commit_batch_size = 3
  /\ i = 4
  /\ dispatched = 4
  /\ Cardinality(BatchCommitIndices) = 1
  /\ FinalCommitCovers(4)
  /\ \A j \in BatchCommitIndices, k \in FinalCommitIndices :
       calls[j].offsets # calls[k].offsets

\* C14: committed offsets never regress.  Of two commit calls of one run, the
\* later one carries, for every (topic, partition) the earlier one carried,
\* an offset that is not smaller.
C14_CommitsNeverRegress ==
  \A j, k \in Indices("commit") :
    j < k =>
      \A x \in calls[j].topic_partitions, y \in calls[k].topic_partitions :
        (x[1] = y[1] /\ x[2] = y[2]) => y[3] >= x[3]

C14_Witness ==
  \E j, k \in Indices("commit") :
    /\ j < k
    /\ \E x \in calls[j].topic_partitions, y \in calls[k].topic_partitions :
         x[1] = y[1] /\ x[2] = y[2] /\ y[3] > x[3]
    /\ \E x \in calls[j].topic_partitions : x \in calls[k].topic_partitions

\* the number of messages a commit covers: the consumer started every
\* partition at offset 0, so the offsets of the commit add up to it
RECURSIVE SumOfOffsets(_)
SumOfOffsets(tps) ==
  IF tps = {} THEN 0
  ELSE LET x == CHOOSE y \in tps : TRUE
       IN x[3] + SumOfOffsets(tps \ {x})

\* the messages covered by the last commit completed so far
CommittedCount ==
  IF Indices("commit") = {} THEN 0
  ELSE LET last == CHOOSE j \in Indices("commit") :
                     \A k \in Indices("commit") : k <= j
       IN SumOfOffsets(calls[last].topic_partitions)

\* C15: bounded uncommitted progress.  Whenever the loop is about to poll,
\* fewer than commit_batch_size of the messages consumed so far are not
\* covered by the last completed commit; at no point are more than
\* commit_batch_size of them uncovered.
C15_BoundedUncommitted ==
  /\ pc = "poll" => i - CommittedCount < commit_batch_size
  /\ i - CommittedCount <= commit_batch_size

C15_Witness ==
  /\ pc = "poll"
  /\ commit_batch_size = 3
  /\ CommittedCount = 3
  /\ i = 4

\* C16, as claimed: the entries a commit has flushed are no longer pending,
\* so a later commit does not send again an entry that an earlier commit of
\* the run has sent.
C16_BatchCleared ==
  \A j, k \in Indices("commit") :
    j < k => calls[j].topic_partitions \cap calls[k].topic_partitions = {}

\* C16, amended: nothing is cleared by a commit.  The tracker keeps an entry
\* for every partition a commit has carried, and every later commit sends an
\* entry for that partition again, also when no newer message of it has been
\* consumed.
C16_TrackerKept ==
  /\ \A j \in Indices("commit") :
       \A tp \in DOMAIN calls[j].offsets :
         tp \in DOMAIN offsets /\ offsets[tp] >= calls[j].offsets[tp]
  /\ \A j, k \in Indices("commit") :
       j < k =>
         \A x \in calls[j].topic_partitions :
           \E y \in calls[k].topic_partitions : x[1] = y[1] /\ x[2] = y[2]

C16_Witness ==
  \E j, k \in Indices("commit") :
    /\ j < k
    /\ k \in BatchCommitIndices
    /\ Cardinality(calls[k].topic_partitions) = 2
    /\ calls[j].topic_partitions \cap calls[k].topic_partitions # {}

\* C17: an empty poll result changes nothing.  The poll that returns None and
\* the check that follows it leave the consumed count, the tracker, the
\* consumer's position and the calls made as they were, and the loop polls
\* again (unless the interrupt ends it); the batch commits follow the number
\* of messages, never the number of polls.
C17_EmptyPoll ==
  /\ [][ /\ (pc = "poll" /\ pc' = "check" /\ message'.kind = "none")
              => UNCHANGED <<i, offsets, position, readMsgs, dispatched, calls>>
         /\ (pc = "check" /\ message.kind = "none")
              => /\ pc' \in {"poll", "final"}
                 /\ UNCHANGED <<i, offsets, position, readMsgs, dispatched>>
                 /\ pc' = "poll" => calls' = calls ]_vars
  /\ [](/\ i <= Len(readMsgs)
        /\ Cardinality(BatchCommitIndices) <= Len(readMsgs) \div commit_batch_size)

C17_Witness ==
  /\ pc = "poll"
  /\ message.kind = "none"
  /\ polls = 3
  /\ i = 1
  /\ commit_batch_size = 2
  /\ Indices("commit") = {}

\* ------------------------------------------------- properties of publish()
\* the warnings of one kind logged about a message
Warnings(kind, c) ==
  {j \in 1..Len(log) : log[j].kind = kind /\ log[j].msg = c}

\* how often a producer accepted a message
EnqueueCount(c) ==
  Cardinality({j \in 1..Len(enqueues) : enqueues[j].msg = c})

\* the reports of failed delivery that a poll has given to the callback
FailedHandled(c) ==
  {j \in 1..Len(handled) : handled[j].msg = c /\ handled[j].error # NoError}

\* C8: publish failure handling.  When produce() raises during a publish
\* call, the call logs exactly one warning carrying that error, ends with the
\* same error for its caller, and its message is not enqueued; no call calls
\* produce() more than once.
C8_PublishFailure ==
  \A c \in 1..Len(results) :
    /\ results[c].attempts <= 1
    /\ results[c].raised # NoError
         => /\ results[c].outcome = results[c].raised
            /\ Cardinality(Warnings("publish", c)) = 1
            /\ \A j \in Warnings("publish", c) : log[j].error = results[c].raised
            /\ EnqueueCount(c) = 0
    /\ results[c].raised = NoError => Warnings("publish", c) = {}

C8_Witness ==
  \E c \in 1..Len(results) :
    /\ results[c].raised = "BufferError"
    /\ results[c].outcome = "BufferError"
    /\ Cardinality(Warnings("publish", c)) = 1
    /\ Len(enqueues) >= 1

\* C9: fire-and-forget delivery acknowledgement.  A delivery report that
\* carries an error is logged once when a poll hands it to the callback, and
\* that is all: no message is ever enqueued twice, and a publish call fails
\* only with the error its own produce() raised, whether it enqueued the
\* message or ran the callback in its drain.
C9_FireAndForget ==
  /\ \A c \in 1..Len(results) :
       /\ EnqueueCount(c) <= 1
       /\ Cardinality(Warnings("delivery", c)) = Cardinality(FailedHandled(c))
       /\ Cardinality(FailedHandled(c)) <= 1
       /\ results[c].outcome \in {"running", "ok"} \cup ProduceErrors
       /\ results[c].outcome \in ProduceErrors
            => results[c].raised = results[c].outcome
  /\ \A j \in 1..Len(handled) :
       handled[j].error # NoError => results[handled[j].msg].outcome = "ok"

C9_Witness ==
  \E c \in 1..Len(results), d \in 1..Len(results) :
    /\ c < d
    /\ FailedHandled(c) # {}
    /\ Cardinality(Warnings("delivery", c)) = 1
    /\ results[c].outcome = "ok"
    /\ results[d].outcome = "ok"
    /\ results[d].polled = results[c].produced
    /\ EnqueueCount(c) = 1

\* C10: lazy shared producing client.  No producer is constructed before the
\* first publish call, at most one is ever constructed for the instance, and
\* every publish call, concurrent ones on a fresh instance included, drains
\* and enqueues on that same producer.
C10_LazySharedProducer ==
  /\ Len(results) = 0 => constructed = 0
  /\ constructed <= 1
  /\ \A c \in 1..Len(results) :
       /\ results[c].polled \in {0, 1}
       /\ results[c].produced \in {0, 1}

\* the records of produced that belong to one publish call
ProducedBy(c) == {j \in 1..Len(produced) : produced[j].msg = c}

\* the character a byte of a key stands for
CharOfByte(b) ==
  CASE b = 48 -> "0" [] b = 49 -> "1" [] b = 50 -> "2" [] b = 51 -> "3"
    [] b = 52 -> "4" [] b = 53 -> "5" [] b = 54 -> "6" [] b = 55 -> "7"
    [] b = 56 -> "8" [] b = 57 -> "9" [] b = 58 -> ":"
    [] b = 97 -> "a" [] b = 98 -> "b" [] b = 99 -> "c"
    [] OTHER -> "?"

\* the position of the first ':' of a key, 0 when there is none
FirstColon(key) ==
  IF \E j \in 1..Len(key) : key[j] = 58
    THEN CHOOSE j \in 1..Len(key) :
           key[j] = 58 /\ \A x \in 1..(j - 1) : key[x] # 58
    ELSE 0

\* the number a sequence of ASCII digits denotes, -1 when it is not one
RECURSIVE NumberOfBytes(_)
NumberOfBytes(bs) ==
  IF bs = <<>> THEN 0
  ELSE LET d == bs[Len(bs)] - 48
           rest == NumberOfBytes(SubSeq(bs, 1, Len(bs) - 1))
       IN IF d < 0 \/ d > 9 \/ rest < 0 THEN -1 ELSE 10 * rest + d

\* C11: published message shape.  Every publish call that succeeds has
\* handed exactly one message to the producer, on the publish topic; its key
\* reads project_id, ':' and event_id in UTF-8 (b"42:abc" in scenario A); its
\* value is the array [1, "insert", event_record, state_record], where the
\* four flags of state_record are those of the call, and event_record
\* carries the call's primary_hash and the retention of the event's
\* organization.  A call that has not succeeded has handed over none.
C11_MessageShape ==
  \A c \in 1..Len(results) :
    /\ results[c].outcome # "ok" => ProducedBy(c) = {}
    /\ results[c].outcome = "ok"
         => /\ Cardinality(ProducedBy(c)) = 1
            /\ \A j \in ProducedBy(c) :
                 LET m == produced[j]
                     a == results[c].args
                     colon == FirstColon(m.key)
                     v == m.value.items
                 IN /\ m.topic = "events"
                    /\ colon > 1
                    /\ NumberOfBytes(SubSeq(m.key, 1, colon - 1)) = a.event.project_id
                    /\ [x \in 1..(Len(m.key) - colon) |-> CharOfByte(m.key[colon + x])]
                         = a.event.event_id
                    /\ a = ScenarioA => m.key = <<52, 50, 58, 97, 98, 99>>
                    /\ m.value.json = "array"
                    /\ Len(v) = 4
                    /\ v[1] = 1
                    /\ v[2] = "insert"
                    /\ v[3].project_id = a.event.project_id
                    /\ v[3].event_id = a.event.event_id
                    /\ v[3].primary_hash = a.primary_hash
                    /\ v[3].retention_days =
                         (IF a.event.organization_id = 1 THEN 30 ELSE 90)
                    /\ v[4] = [is_new |-> a.is_new,
                               is_sample |-> a.is_sample,
                               is_regression |-> a.is_regression,
                               is_new_group_environment |->
                                 a.is_new_group_environment]

C11_Witness ==
  \E c \in 1..Len(results), d \in 1..Len(results) :
    /\ results[c].outcome = "ok"
    /\ results[d].outcome = "ok"
    /\ results[c].args = ScenarioA
    /\ results[d].args.event.project_id = 105
    /\ \E j \in ProducedBy(d) : produced[j].key = <<49, 48, 53, 58, 98, 49>>

\* the place of a call's message among the messages accepted, 0 when the
\* call has not enqueued one
EnqueuePosition(c) ==
  IF \E j \in 1..Len(enqueues) : enqueues[j].msg = c
    THEN CHOOSE j \in 1..Len(enqueues) : enqueues[j].msg = c
    ELSE 0

\* C18: drain before enqueue.  A publish call never drains twice, and has
\* drained exactly once when it calls produce() or returns.  So the delivery
\* report of a message is handled only in the drain of another call, a drain
\* that comes after the message was enqueued and before that call's own
\* enqueue (with a single caller: a call made later); a message after whose
\* enqueue no call drains is never handled.
C18_DrainBeforeEnqueue ==
  /\ \A c \in 1..Len(results) :
       /\ results[c].drains <= 1
       /\ (results[c].attempts >= 1 \/ results[c].outcome # "running")
            => results[c].drains = 1
  /\ \A j \in 1..Len(handled) :
       LET c == handled[j].msg
           d == handled[j].by
       IN /\ d # c
          /\ EnqueuePosition(c) >= 1
          /\ EnqueuePosition(c) <= handled[j].after
          /\ results[d].drained_after = handled[j].after
          /\ EnqueuePosition(d) = 0 \/ EnqueuePosition(d) > handled[j].after
          /\ Cardinality(callers) = 1 => d > c
  /\ \A c \in 1..Len(results) :
       (\A d \in 1..Len(results) :
          results[d].drains = 0 \/ results[d].drained_after < EnqueuePosition(c))
         => \A j \in 1..Len(handled) : handled[j].msg # c

C18_Witness ==
  /\ \A t \in Threads : tpc[t] = "idle"
  /\ Len(results) = 2
  /\ \A c \in 1..2 : EnqueuePosition(c) = c
  /\ \E j \in 1..Len(handled) : handled[j].msg = 1 /\ handled[j].by = 2
  /\ \E r \in 1..Len(reports) : reports[r].msg = 2
  /\ \A j \in 1..Len(handled) : handled[j].msg # 2

====
